---- MODULE Spec2Model ----
(***************************************************************************)
(* The Tech Brief static-site build pipeline (scripts/build.py,            *)
(* scripts/summarize.py): feed entries -> display items -> category pages  *)
(* and homepage.                                                           *)
(*                                                                         *)
(* Python strings that the code takes apart (hosts, paths, category names, *)
(* slugs, article text) are sequences of one-character strings; the empty  *)
(* and the absent string are both <<>>.  Strings the code only passes      *)
(* around (photo ids, titles, feed names) are TLA+ strings or tuples; a    *)
(* link is a tuple naming its entry, the empty link is <<>>.  A URL is the *)
(* record urlparse() splits it into, and None is a record too, so that it  *)
(* compares with URLs and struct_times.                                    *)
(***************************************************************************)
EXTENDS Integers, Sequences, FiniteSets, TLC

VARIABLES
    pc,            \* position of the running function
    url,           \* is_safe_image: the argument
    safe,          \* is_safe_image: the returned value
    entry,         \* first_image: the feed entry
    image,         \* first_image: the returned value
    text,          \* summarize_text: the text argument
    sentences,     \* summarize_text: the requested count
    primary,       \* summarize_text: what the TextRank strategy does
    summary,       \* summarize_text: the returned value
    category_slug, \* assign_unique_images: the slug argument
    items,         \* assign_unique_images: the item list, changed in place
    FEEDS,         \* data/feeds.json: category -> feed sources, in file order,
                   \* each source with what fetching it gives
    META_MAP,      \* data/meta.json: category -> metadata
    category_map,  \* main: category -> item list, in insertion order
    all_cards,     \* build_home: the combined list after the sort
    docs           \* the output directory: path -> what was written last

vars == <<pc, url, safe, entry, image, text, sentences, primary, summary,
          category_slug, items, FEEDS, META_MAP, category_map, all_cards, docs>>

---------------------------------------------------------------------------
(* Python values *)

None == [none |-> TRUE]

Range(s) == {s[i] : i \in 1..Len(s)}

SeqsUpTo(S, n) == UNION {[1..k -> S] : k \in 0..n}

LowerAlpha ==
    <<"a","b","c","d","e","f","g","h","i","j","k","l","m",
      "n","o","p","q","r","s","t","u","v","w","x","y","z">>

UpperAlpha ==
    <<"A","B","C","D","E","F","G","H","I","J","K","L","M",
      "N","O","P","Q","R","S","T","U","V","W","X","Y","Z">>

Digits == {"0","1","2","3","4","5","6","7","8","9"}

\* str.lower() on one character
LowerChar(c) ==
    IF \E i \in 1..26 : UpperAlpha[i] = c
    THEN LowerAlpha[CHOOSE i \in 1..26 : UpperAlpha[i] = c]
    ELSE c

\* str.lower()
lower(s) == [i \in 1..Len(s) |-> LowerChar(s[i])]

\* str.lstrip(chars): drops every leading character that is in chars
RECURSIVE lstrip(_, _)
lstrip(s, chars) ==
    IF s # <<>> /\ Head(s) \in chars THEN lstrip(Tail(s), chars) ELSE s

\* str.endswith(suffix)
endswith(s, suffix) ==
    /\ Len(suffix) <= Len(s)
    /\ SubSeq(s, Len(s) - Len(suffix) + 1, Len(s)) = suffix

---------------------------------------------------------------------------
(* Text helpers: summarize_text *)

Whitespace == {" "}

Terminators == {".", "!", "?"}

\* str.strip()
RECURSIVE rstrip(_)
rstrip(s) ==
    IF s # <<>> /\ s[Len(s)] \in Whitespace
    THEN rstrip(SubSeq(s, 1, Len(s) - 1)) ELSE s

strip(s) == rstrip(lstrip(s, Whitespace))

\* the end of the whitespace run that starts at i
RECURSIVE skip_ws(_, _)
skip_ws(t, i) ==
    IF i <= Len(t) /\ t[i] \in Whitespace THEN skip_ws(t, i + 1) ELSE i

\* re.split(r'(?<=[.!?])\s+', t) from position i on, cur being the part so far
RECURSIVE split_from(_, _, _)
split_from(t, i, cur) ==
    IF i > Len(t) THEN <<cur>>
    ELSE IF t[i] \in Whitespace /\ i > 1 /\ t[i - 1] \in Terminators
    THEN <<cur>> \o split_from(t, skip_ws(t, i), <<>>)
    ELSE split_from(t, i + 1, Append(cur, t[i]))

split_sentences(t) == split_from(t, 1, <<>>)

\* ' '.join(parts)
RECURSIVE join(_)
join(parts) ==
    IF parts = <<>> THEN <<>>
    ELSE IF Len(parts) = 1 THEN parts[1]
    ELSE parts[1] \o <<" ">> \o join(Tail(parts))

\* s[:n], n >= 0
prefix(s, n) == SubSeq(s, 1, IF n < Len(s) THEN n ELSE Len(s))

TRUNCATE_CHARS == 280

\* the sentences at the positions sel of parts, in their order in parts
RECURSIVE pick(_, _, _)
pick(parts, sel, i) ==
    IF i > Len(parts) THEN <<>>
    ELSE (IF i \in sel THEN <<parts[i]>> ELSE <<>>) \o pick(parts, sel, i + 1)

\* What the TextRank strategy can do with the text and count: raise, or
\* return at most count of the document's sentences in document order.
Raises == [raises |-> TRUE, result |-> <<>>]

Ranked(result) == [raises |-> FALSE, result |-> result]

PrimaryOutcomes(t, count) ==
    {Raises} \cup
    { Ranked(pick(split_sentences(t), sel, 1)) :
        sel \in {x \in SUBSET (1..Len(split_sentences(t))) : Cardinality(x) <= count} }

\* the regex fallback of summarize_text
fallback(t, count) ==
    LET parts == split_sentences(t)
        joined == join(prefix(parts, count))
    IN  IF joined # <<>> THEN joined ELSE prefix(t, TRUNCATE_CHARS)

\* summarize_text(text, sentences) when the primary strategy does `outcome`
summarize_text(txt, count, outcome) ==
    LET t == strip(txt)
    IN  IF t = <<>> THEN <<>>
        ELSE IF ~outcome.raises /\ outcome.result # <<>> THEN join(outcome.result)
        ELSE fallback(t, count)

---------------------------------------------------------------------------
(* URLs *)

\* A URL as urlparse() splits it.  The empty string is the URL whose parts are
\* all empty.
Url(netloc, path, query) == [netloc |-> netloc, path |-> path, query |-> query]

EmptyUrl == Url(<<>>, <<>>, <<>>)

\* `not url`
Falsy(u) == u = None \/ u = EmptyUrl

\* a or b, on URLs
OrUrl(a, b) == IF Falsy(a) THEN b ELSE a

---------------------------------------------------------------------------
(* Image extraction *)

IMAGE_EXTS ==
    << <<".","j","p","g">>, <<".","j","p","e","g">>, <<".","p","n","g">>,
       <<".","w","e","b","p">>, <<".","g","i","f">> >>

_looks_like_image(u) ==
    IF Falsy(u) THEN FALSE
    ELSE \E k \in 1..Len(IMAGE_EXTS) : endswith(lower(u.path), IMAGE_EXTS[k])

\* An HTML fragment is the sequence of its nodes in document order: text
\* nodes and <img> elements.  The empty string is the empty sequence.  An
\* <img> carries its attributes; an absent attribute is None (a URL) or <<>>
\* (srcset, the list of the whitespace-separated tokens of its value; a
\* srcset that is present holds at least one token).
Text(chars) == [tag |-> "text", chars |-> chars]

Img(src, data_src, data_original, srcset) ==
    [tag |-> "img", src |-> src, data_src |-> data_src,
     data_original |-> data_original, srcset |-> srcset]

\* BeautifulSoup(html, 'html.parser').find('img')
RECURSIVE find_img(_)
find_img(html) ==
    IF html = <<>> THEN None
    ELSE IF Head(html).tag = "img" THEN Head(html)
    ELSE find_img(Tail(html))

_pick_img_tag(img) ==
    IF img = None THEN None
    ELSE IF ~Falsy(img.src) THEN img.src
    ELSE IF ~Falsy(img.data_src) THEN img.data_src
    ELSE IF ~Falsy(img.data_original) THEN img.data_original
    ELSE IF img.srcset # <<>> THEN Head(img.srcset)
    ELSE None

\* The result of one of first_image's loops: it returned val, or fell through.
Return(val) == [returned |-> TRUE, val |-> val]

FellThrough == [returned |-> FALSE, val |-> None]

\* for m in list: if _looks_like_image(m.get('url')): return m['url']
RECURSIVE media_loop(_)
media_loop(list) ==
    IF list = <<>> THEN FellThrough
    ELSE IF _looks_like_image(Head(list).url) THEN Return(Head(list).url)
    ELSE media_loop(Tail(list))

\* 'image' in s
ImageWord == <<"i","m","a","g","e">>

contains(s, sub) ==
    \E i \in 1..(Len(s) - Len(sub) + 1) : SubSeq(s, i, i + Len(sub) - 1) = sub

RECURSIVE enclosure_loop(_)
enclosure_loop(list) ==
    IF list = <<>> THEN FellThrough
    ELSE LET e == Head(list)
             u == OrUrl(e.href, e.url)
         IN  IF _looks_like_image(u) \/ contains(e.type, ImageWord)
             THEN Return(u)
             ELSE enclosure_loop(Tail(list))

\* a or b, on HTML fragments
OrHtml(a, b) == IF a # <<>> THEN a ELSE b

RECURSIVE content_loop(_)
content_loop(list) ==
    IF list = <<>> THEN FellThrough
    ELSE LET c == Head(list)
             html == OrHtml(c.value, c.content)
             u == _pick_img_tag(find_img(html))
         IN  IF ~Falsy(u) THEN Return(u) ELSE content_loop(Tail(list))

description_step(e) ==
    LET desc == OrHtml(e.summary, e.description)
        u == IF desc # <<>> THEN _pick_img_tag(find_img(desc)) ELSE None
    IN  IF ~Falsy(u) THEN Return(u) ELSE FellThrough

\* first_image with the summary/description step tried first
first_image_summary_first(e) ==
    IF description_step(e).returned
        THEN description_step(e).val
    ELSE IF media_loop(e.media_content).returned
        THEN media_loop(e.media_content).val
    ELSE IF media_loop(e.media_thumbnail).returned
        THEN media_loop(e.media_thumbnail).val
    ELSE IF enclosure_loop(e.enclosures).returned
        THEN enclosure_loop(e.enclosures).val
    ELSE IF content_loop(e.content).returned
        THEN content_loop(e.content).val
    ELSE None

first_image(e) ==
    IF media_loop(e.media_content).returned
        THEN media_loop(e.media_content).val
    ELSE IF media_loop(e.media_thumbnail).returned
        THEN media_loop(e.media_thumbnail).val
    ELSE IF enclosure_loop(e.enclosures).returned
        THEN enclosure_loop(e.enclosures).val
    ELSE IF content_loop(e.content).returned
        THEN content_loop(e.content).val
    ELSE IF description_step(e).returned
        THEN description_step(e).val
    ELSE None

---------------------------------------------------------------------------
(* Copyright-safe image handling *)

SAFE_IMAGE_DOMAINS ==
    << <<"i","m","a","g","e","s",".","u","n","s","p","l","a","s","h",".","c","o","m">>,
       <<"i","m","a","g","e","s",".","p","e","x","e","l","s",".","c","o","m">>,
       <<"c","d","n",".","p","i","x","a","b","a","y",".","c","o","m">>,
       <<"u","p","l","o","a","d",".","w","i","k","i","m","e","d","i","a",".","o","r","g">>,
       <<"a","p","p","l","e",".","c","o","m","/","n","e","w","s","r","o","o","m","/","i","m","a","g","e","s">>,
       <<"s","a","m","s","u","n","g",".","c","o","m","/","p","r","e","s","s">>,
       <<"g","o","o","g","l","e",".","c","o","m","/","p","r","e","s","s">> >>

\* the characters of the argument of lstrip('www.')
WwwDot == {"w", "."}

is_safe_image(u) ==
    IF Falsy(u) THEN FALSE
    ELSE LET host == lstrip(lower(u.netloc), WwwDot)
         IN  \E k \in 1..Len(SAFE_IMAGE_DOMAINS) :
                 \/ host = SAFE_IMAGE_DOMAINS[k]
                 \/ endswith(host, <<".">> \o SAFE_IMAGE_DOMAINS[k])

---------------------------------------------------------------------------
(* Per-category image pools and the rotating-cursor substitution *)

\* the keys of CATEGORY_IMAGE_POOLS, in the order of the dict
POOL_SLUGS ==
    << <<"a","i","-","n","e","w","s">>,
       <<"e","n","t","e","r","p","r","i","s","e","-","t","e","c","h">>,
       <<"c","y","b","e","r","s","e","c","u","r","i","t","y","-","u","p","d","a","t","e","s">>,
       <<"m","o","b","i","l","e","-","g","a","d","g","e","t","s">>,
       <<"c","o","n","s","u","m","e","r","-","t","e","c","h">>,
       <<"b","r","o","a","d","c","a","s","t","-","t","e","c","h">>,
       <<"g","a","m","i","n","g">>,
       <<"e","v","s","-","a","u","t","o","m","o","t","i","v","e">>,
       <<"s","t","a","r","t","u","p","s","-","b","u","s","i","n","e","s","s">>,
       <<"d","e","f","a","u","l","t">> >>

\* the pools of CATEGORY_IMAGE_POOLS, POOLS[k] being the pool of POOL_SLUGS[k]
POOLS ==
    <<
       << "photo-1677442135703-1787eea5ce01", "photo-1620712943543-bcc4688e7485", "photo-1655635643532-fa9ba2648cbe",
          "photo-1533228100845-08145b01de14", "photo-1558494949-ef010cbdcc31", "photo-1635070041078-e363dbe005cb",
          "photo-1501526029524-a8ea952b15be", "photo-1531297484001-80022131f5a1", "photo-1504639725590-34d0984388bd",
          "photo-1518770660439-4636190af475", "photo-1526374965328-7f61d4dc18c5", "photo-1510511459019-5dda7724fd87" >>,
       << "photo-1486312338219-ce68d2c6f44d", "photo-1497366216548-37526070297c", "photo-1568952433726-3896e3881c65",
          "photo-1553877522-43269d4ea984", "photo-1542744094-3a31f272c490", "photo-1521737711867-e3b97375f902",
          "photo-1600880292203-757bb62b4baf", "photo-1454165804606-c3d57bc86b40", "photo-1507679799987-c73779587ccf",
          "photo-1560472354-b33ff0c44a43", "photo-1530099486328-e021101a494a", "photo-1661956602116-aa6865609028" >>,
       << "photo-1550751827-4bd374c3f58b", "photo-1563986768609-322da13575f3", "photo-1614064641938-3bbee52942c7",
          "photo-1510511233900-1982d92bd835", "photo-1555949963-aa79dcee981c", "photo-1504384308090-c894fdcc538d",
          "photo-1516321318423-f06f85e504b3", "photo-1544197150-b99a580bb7a8", "photo-1573164713988-8665fc963095",
          "photo-1603808033192-082d6919d3e1", "photo-1569396116180-210c182bedb8", "photo-1591696205602-2f950c417cb9" >>,
       << "photo-1511707171634-5f897ff02aa9", "photo-1592750475338-74b7b21085ab", "photo-1585060544812-6b45742d762f",
          "photo-1523206489230-c012c64b2b48", "photo-1567581935884-3349723552ca", "photo-1542751371-adc38448a05e",
          "photo-1525547719571-a2d4ac8945e2", "photo-1616348436168-de43ad0db179", "photo-1565849904461-04a58ad377e0",
          "photo-1601784551446-20c9e07cdbdb", "photo-1583394838336-acd977736f90", "photo-1570891836654-d4590d13d073" >>,
       << "photo-1498049794561-7780e7231661", "photo-1517694712202-14dd9538aa97", "photo-1593642632559-0c6d3fc62b89",
          "photo-1519389950473-47ba0277781c", "photo-1496181133206-80ce9b88a853", "photo-1504707748692-419802cf939d",
          "photo-1550009158-9ebf69173e03", "photo-1587829741301-dc798b83add3", "photo-1484788984921-03950022c9ef",
          "photo-1547658719-da2b51169166", "photo-1560472355-536de3962603", "photo-1468495244123-6c6c332eeece" >>,
       << "photo-1478737270239-2f02b77fc618", "photo-1612420696760-0a0f34d3e7d0", "photo-1567095761054-7003afd47020",
          "photo-1598488035139-bdbb2231ce04", "photo-1478737270239-2f02b77fc618", "photo-1516321497487-e288fb19713f",
          "photo-1574717024653-61fd2cf4d44d", "photo-1590602847861-f357a9332bbc", "photo-1492619375914-88005aa9e8fb",
          "photo-1611532736597-de2d4265fba3", "photo-1623039405147-547794f92e9e", "photo-1540575467063-178a50c2df87" >>,
       << "photo-1538481199705-c710c4e965fc", "photo-1493711662062-fa541adb3fc8", "photo-1552820728-8b83bb6b773f",
          "photo-1601887389937-0b02f7683064", "photo-1612287230202-1ff1d85d1bdf", "photo-1511512578047-dfb367046420",
          "photo-1574375927938-d5a98e8ffe85", "photo-1580327344181-c1163234e5a0", "photo-1606144042614-b2417e99c4e3",
          "photo-1560419015-7c427e8ae5ba", "photo-1586182987320-4f376d39d787", "photo-1569429593410-b498b3fb3387" >>,
       << "photo-1593941707882-a5bba14938c7", "photo-1558618666-fcd25c85cd64", "photo-1616455579100-2ceaa4eb2d37",
          "photo-1549317661-bd32c8ce0db2", "photo-1502161254119-e1f02c5b5e4b", "photo-1568605117036-5fe5e7bab0b7",
          "photo-1580274455191-1c62238fa1f4", "photo-1617469767053-d3b523a0b982", "photo-1590362891991-f776e747a588",
          "photo-1606016159991-dfe4f2746ad5", "photo-1571987502227-9231b837d92a", "photo-1583121274602-3e2820c69888" >>,
       << "photo-1559136555-9303baea8ebd", "photo-1507003211169-0a1dd7228f2d", "photo-1600880292203-757bb62b4baf",
          "photo-1450101499163-c8848c66ca85", "photo-1460925895917-afdab827c52f", "photo-1553484771-371a605b060b",
          "photo-1579532537598-459ecdaf39cc", "photo-1521737604893-d14cc237f11d", "photo-1537511446984-935f663eb1f4",
          "photo-1486406146926-c627a92ad1ab", "photo-1573164713714-d95e436ab8d6", "photo-1444653389962-8149286c578a" >>,
       << "photo-1518770660439-4636190af475", "photo-1531297484001-80022131f5a1", "photo-1504639725590-34d0984388bd",
          "photo-1519389950473-47ba0277781c", "photo-1498049794561-7780e7231661", "photo-1550751827-4bd374c3f58b",
          "photo-1526374965328-7f61d4dc18c5", "photo-1480944657103-7fed22359e1d", "photo-1488229297570-58520851e868",
          "photo-1451187580459-43490279c0fa", "photo-1516321318423-f06f85e504b3", "photo-1558494949-ef010cbdcc31" >>
    >>

\* CATEGORY_IMAGE_POOLS.get(category_slug, CATEGORY_IMAGE_POOLS['default'])
pool_for(slug) ==
    IF \E k \in 1..Len(POOL_SLUGS) : POOL_SLUGS[k] = slug
    THEN POOLS[CHOOSE k \in 1..Len(POOL_SLUGS) : POOL_SLUGS[k] = slug]
    ELSE POOLS[CHOOSE k \in 1..Len(POOL_SLUGS) :
                   POOL_SLUGS[k] = <<"d","e","f","a","u","l","t">>]

UNSPLASH == <<"i","m","a","g","e","s",".","u","n","s","p","l","a","s","h",".","c","o","m">>

\* f'https://images.unsplash.com/{photo_id}?w=800&auto=format&fit=crop'
pool_url(photo_id) == Url(UNSPLASH, <<"/", photo_id>>, <<"w=800&auto=format&fit=crop">>)

\* copyright_safe_image(url, category_slug, article_key); idx stands for
\* int(hashlib.md5(seed).hexdigest(), 16) % len(pool), a hash of the article
\* key (of the slug when the key is empty) whose value is left open
copyright_safe_image(u, slug, idx) ==
    IF is_safe_image(u) THEN u
    ELSE pool_url(pool_for(slug)[idx + 1])

\* the loop of assign_unique_images from an item on, pool_cursor being cursor
RECURSIVE assign_from(_, _, _)
assign_from(its, pool, cursor) ==
    IF its = <<>> THEN <<>>
    ELSE IF is_safe_image(Head(its).image)
    THEN <<Head(its)>> \o assign_from(Tail(its), pool, cursor)
    ELSE <<[Head(its) EXCEPT !.image = pool_url(pool[(cursor % Len(pool)) + 1])]>>
             \o assign_from(Tail(its), pool, cursor + 1)

\* assign_unique_images with a cursor that is never advanced
assign_cursor_stuck(its, slug) ==
    [i \in 1..Len(its) |->
        IF is_safe_image(its[i].image) THEN its[i]
        ELSE [its[i] EXCEPT !.image = pool_url(pool_for(slug)[1])]]

\* assign_unique_images that gives every item a pool image, safe or not
assign_every_item(its, slug) ==
    [i \in 1..Len(its) |->
        [its[i] EXCEPT !.image =
            pool_url(pool_for(slug)[((i - 1) % Len(pool_for(slug))) + 1])]]

assign_unique_images(its, slug) == assign_from(its, pool_for(slug), 0)

---------------------------------------------------------------------------
(* Category builder *)

\* dict.get(key, default)
Get(d, key, default) == IF key \in DOMAIN d THEN d[key] ELSE default

\* BeautifulSoup(html, 'html.parser').get_text(' '): the strings of the
\* fragment joined by ' '
get_text(html) ==
    LET texts == SelectSeq(html, LAMBDA n : n.tag = "text")
    IN  join([i \in 1..Len(texts) |-> texts[i].chars])

\* re.sub(r"\s+", " ", txt)
RECURSIVE collapse_ws(_)
collapse_ws(s) ==
    IF s = <<>> THEN <<>>
    ELSE IF Head(s) \in Whitespace
    THEN <<" ">> \o collapse_ws(lstrip(Tail(s), Whitespace))
    ELSE <<Head(s)>> \o collapse_ws(Tail(s))

clean_text(html) == strip(collapse_ws(get_text(html)))

\* A struct_time is the number of seconds time.mktime() gives for it, in
\* days; dates before 1970 give negative numbers.
StructTime(days) == [tm_days |-> days]

mktime(t) == t.tm_days

parse_time(e) ==
    LET t == IF e.published_parsed # None THEN e.published_parsed
             ELSE e.updated_parsed
    IN  IF t # None THEN mktime(t) ELSE 0

\* time.strftime('%B %d, %Y', time.localtime(ts)), as the day it names
fmt_date(ts) == IF ts = 0 THEN <<>> ELSE <<"day", ts>>

\* the display item build_category makes of an entry
Item(title, link, source, summ, img, ts, date, category) ==
    [title |-> title, link |-> link, source |-> source, summary |-> summ,
     image |-> img, ts |-> ts, date |-> date, category |-> category,
     commentary |-> <<>>]

\* What the TextRank strategy does during one build: it is unavailable and
\* raises, or it ranks the sentences, here by picking the first or the last
\* `count` of them.
PrimaryPolicies == {"raises", "first", "last"}

suffix(s, n) == SubSeq(s, IF n < Len(s) THEN Len(s) - n + 1 ELSE 1, Len(s))

policy_outcome(policy, t, count) ==
    IF policy = "raises" \/ t = <<>> THEN Raises
    ELSE IF policy = "first" THEN Ranked(prefix(split_sentences(t), count))
    ELSE Ranked(suffix(split_sentences(t), count))

SUMMARY_SENTENCES == 2

\* the body of the loop over feed.entries
make_item(e, feed, category, policy) ==
    LET txt == clean_text(OrHtml(e.summary, e.description))
        ts == parse_time(e)
    IN  Item(Get(e, "title", "Untitled"), e.link, Get(feed, "title", "Unknown"),
             summarize_text(txt, SUMMARY_SENTENCES,
                            policy_outcome(policy, strip(txt), SUMMARY_SENTENCES)),
             first_image(e), ts, fmt_date(ts), category)

ENTRY_CAP == 12

\* feed.entries[:12] with every entry of a source that is not capped
capped_entries_all(source) == source.entries

\* feed.entries[:12]
capped_entries(source) == prefix(source.entries, ENTRY_CAP)

\* the loop over urls: a source whose fetch raised contributes nothing
RECURSIVE collect_items(_, _, _)
collect_items(sources, category, policy) ==
    IF sources = <<>> THEN <<>>
    ELSE LET src == Head(sources)
             es == capped_entries(src)
             mine == IF src.ok
                     THEN [i \in 1..Len(es) |-> make_item(es[i], src.feed, category, policy)]
                     ELSE <<>>
         IN  mine \o collect_items(Tail(sources), category, policy)

\* list.sort(key=lambda x: x['ts'], reverse=True): stable, so items of equal
\* ts keep their order
RECURSIVE insert_desc(_, _)
insert_desc(sorted, x) ==
    IF sorted = <<>> THEN <<x>>
    ELSE IF Head(sorted).ts >= x.ts
    THEN <<Head(sorted)>> \o insert_desc(Tail(sorted), x)
    ELSE <<x>> \o sorted

RECURSIVE sort_into(_, _)
sort_into(sorted, rest) ==
    IF rest = <<>> THEN sorted
    ELSE sort_into(insert_desc(sorted, Head(rest)), Tail(rest))

sort_by_ts_desc(list) == sort_into(<<>>, list)

\* slugify(): lower case, every run of other characters becomes one hyphen,
\* no hyphen at either end
RECURSIVE collapse_hyphens(_)
collapse_hyphens(s) ==
    IF s = <<>> THEN <<>>
    ELSE IF Head(s) = "-"
    THEN <<"-">> \o collapse_hyphens(lstrip(Tail(s), {"-"}))
    ELSE <<Head(s)>> \o collapse_hyphens(Tail(s))

RECURSIVE rstrip_hyphens(_)
rstrip_hyphens(s) ==
    IF s # <<>> /\ s[Len(s)] = "-"
    THEN rstrip_hyphens(SubSeq(s, 1, Len(s) - 1)) ELSE s

slugify(name) ==
    LET low == lower(name)
        marked == [i \in 1..Len(low) |->
                     IF low[i] \in Range(LowerAlpha) \cup Digits THEN low[i] ELSE "-"]
    IN  rstrip_hyphens(lstrip(collapse_hyphens(marked), {"-"}))

\* meta = dict(META_MAP.get(category, {...})), then the slug if it has none
meta_for(category, meta_map) ==
    LET m == Get(meta_map, category,
                 [title |-> category, description |-> category, h1 |-> category,
                  h2 |-> <<>>, slug |-> slugify(category)])
    IN  IF "slug" \in DOMAIN m THEN m ELSE m @@ ("slug" :> slugify(category))

DOT_HTML == <<".","h","t","m","l">>

\* os.path.join(SITE, f"{meta['slug']}.html"), relative to docs/
category_path(meta) == meta.slug \o DOT_HTML

\* open(path, 'w').write(html)
write(dir, path, html) ==
    [q \in DOMAIN dir \cup {path} |-> IF q = path THEN html ELSE dir[q]]

\* build_category(category, urls): the items it returns, and the page it
\* writes and where
build_category(category, sources, meta_map, policy) ==
    LET sorted == sort_by_ts_desc(collect_items(sources, category, policy))
        meta == meta_for(category, meta_map)
        its == assign_unique_images(sorted, meta.slug)
    IN  [items |-> its,
         path |-> category_path(meta),
         html |-> [template |-> "category", meta |-> meta, cards |-> its]]

---------------------------------------------------------------------------
(* Home builder *)

CATEGORY_ORDER ==
    << <<"A","I"," ","N","e","w","s">>,
       <<"S","t","a","r","t","u","p","s"," ","&"," ","B","u","s","i","n","e","s","s">>,
       <<"M","o","b","i","l","e"," ","&"," ","G","a","d","g","e","t","s">>,
       <<"C","o","n","s","u","m","e","r"," ","T","e","c","h">>,
       <<"C","y","b","e","r","s","e","c","u","r","i","t","y"," ","U","p","d","a","t","e","s">>,
       <<"E","n","t","e","r","p","r","i","s","e"," ","T","e","c","h">>,
       <<"B","r","o","a","d","c","a","s","t"," ","T","e","c","h">>,
       <<"G","a","m","i","n","g">>,
       <<"E","V","s"," ","&"," ","A","u","t","o","m","o","t","i","v","e">> >>

HOME_PER_CATEGORY == 3

HOME_CAPACITY == 27

\* category_map.get(cat, []): the map is the sequence of its (cat, items)
\* pairs in insertion order
map_get(cmap, cat) ==
    IF \E k \in 1..Len(cmap) : cmap[k].cat = cat
    THEN cmap[CHOOSE k \in 1..Len(cmap) : cmap[k].cat = cat].items
    ELSE <<>>

\* the sweep without the test on seen
sweep_items_no_dedup(its, st) ==
    [cards |-> st.cards \o its,
     seen |-> st.seen \cup {its[i].link : i \in 1..Len(its)}]

\* for item in items: if item['link'] not in seen: append it and add the link
RECURSIVE sweep_items(_, _)
sweep_items(its, st) ==
    IF its = <<>> THEN st
    ELSE IF Head(its).link \notin st.seen
    THEN sweep_items(Tail(its),
                     [cards |-> Append(st.cards, Head(its)),
                      seen |-> st.seen \cup {Head(its).link}])
    ELSE sweep_items(Tail(its), st)

\* the loop over CATEGORY_ORDER
RECURSIVE sweep_ordered(_, _, _)
sweep_ordered(order, cmap, st) ==
    IF order = <<>> THEN st
    ELSE sweep_ordered(Tail(order), cmap,
                       sweep_items(prefix(map_get(cmap, Head(order)), HOME_PER_CATEGORY), st))

\* the loop over category_map.items() for the categories not in CATEGORY_ORDER
RECURSIVE sweep_extra(_, _)
sweep_extra(cmap, st) ==
    IF cmap = <<>> THEN st
    ELSE IF Head(cmap).cat \notin Range(CATEGORY_ORDER)
    THEN sweep_extra(Tail(cmap),
                     sweep_items(prefix(Head(cmap).items, HOME_PER_CATEGORY), st))
    ELSE sweep_extra(Tail(cmap), st)

\* all_cards before the sort
combined_cards(cmap) ==
    sweep_extra(cmap, sweep_ordered(CATEGORY_ORDER, cmap,
                                    [cards |-> <<>>, seen |-> {}])).cards

HOME == <<"H","o","m","e">>

INDEX_HTML == <<"i","n","d","e","x",".","h","t","m","l">>

\* build_home rendering all of all_cards
build_home_untruncated(cmap, meta_map) ==
    LET sorted == sort_by_ts_desc(combined_cards(cmap))
    IN  [all_cards |-> sorted,
         html |-> [template |-> "home", meta |-> meta_map[HOME], cards |-> sorted]]

\* build_home(category_map): all_cards after the sort, and the page it writes
build_home(cmap, meta_map) ==
    LET sorted == sort_by_ts_desc(combined_cards(cmap))
    IN  [all_cards |-> sorted,
         html |-> [template |-> "home", meta |-> meta_map[HOME],
                   cards |-> prefix(sorted, HOME_CAPACITY)]]

---------------------------------------------------------------------------
(* Entry point *)

\* static_files of sync_static_assets
STATIC_FILES ==
    { <<"a","b","o","u","t",".","h","t","m","l">>,
      <<"c","o","n","t","a","c","t",".","h","t","m","l">>,
      <<"h","o","w","-","t","o",".","h","t","m","l">>,
      <<"r","o","b","o","t","s",".","t","x","t">>,
      <<"s","i","t","e","m","a","p",".","x","m","l">>,
      <<"t","e","m","p","l","a","t","e","_","c","a","t","e","g","o","r","y",".","h","t","m","l">>,
      <<"t","e","m","p","l","a","t","e","_","h","o","m","e",".","h","t","m","l">> }

\* sync_static_assets(): site/ is taken to hold every static file; the
\* directories it copies hold no page of the build
sync_static_assets(dir) ==
    [q \in DOMAIN dir \cup STATIC_FILES |->
        IF q \in STATIC_FILES THEN [template |-> "static"] ELSE dir[q]]

\* main(), up to the loop
SyncStaticAssets ==
    /\ pc = "sync"
    /\ docs' = sync_static_assets(docs)
    /\ category_map' = <<>>
    /\ pc' = "loop"
    /\ UNCHANGED <<url, safe, entry, image, text, sentences, primary, summary,
                   category_slug, items, FEEDS, META_MAP, all_cards>>

\* one turn of main's loop: category_map[cat] = build_category(cat, urls)
BuildCategory ==
    /\ pc = "loop"
    /\ Len(category_map) < Len(FEEDS)
    /\ \E policy \in PrimaryPolicies :
         LET feed == FEEDS[Len(category_map) + 1]
             built == build_category(feed.cat, feed.urls, META_MAP, policy)
         IN  /\ primary' = policy
             /\ category_map' = Append(category_map,
                                       [cat |-> feed.cat, items |-> built.items])
             /\ docs' = write(docs, built.path, built.html)
    /\ UNCHANGED <<pc, url, safe, entry, image, text, sentences, summary,
                   category_slug, items, FEEDS, META_MAP, all_cards>>

\* main() after the loop: build_home(category_map)
BuildHome ==
    /\ pc = "loop"
    /\ Len(category_map) = Len(FEEDS)
    /\ LET built == build_home(category_map, META_MAP)
       IN  /\ all_cards' = built.all_cards
           /\ docs' = write(docs, INDEX_HTML, built.html)
    /\ pc' = "done"
    /\ UNCHANGED <<url, safe, entry, image, text, sentences, primary, summary,
                   category_slug, items, FEEDS, META_MAP, category_map>>

NextMain == SyncStaticAssets \/ BuildCategory \/ BuildHome

---------------------------------------------------------------------------
(* is_safe_image on its own: the argument is drawn from hosts made of a     *)
(* short prefix and a base domain.                                         *)

MaxPrefix == 2

HostPrefixChars == {"w", "W", ".", "x"}

HostBases ==
    Range(SAFE_IMAGE_DOMAINS) \cup
    { <<"u","n","s","p","l","a","s","h",".","c","o","m">>,
      <<"e","x","a","m","p","l","e",".","c","o","m">>,
      <<"I","M","A","G","E","S",".","P","E","X","E","L","S",".","C","O","M">>,
      <<"c","o","m">> }

ImgPath == <<"/","p",".","j","p","g">>

SafeInputs ==
    {None, EmptyUrl} \cup
    { Url(p \o b, ImgPath, <<>>) :
        p \in SeqsUpTo(HostPrefixChars, MaxPrefix), b \in HostBases }

Idle == <<>>

InitSafe ==
    /\ pc = "is_safe_image"
    /\ url \in SafeInputs
    /\ safe = FALSE
    /\ entry = Idle /\ image = None
    /\ text = Idle /\ sentences = 0 /\ primary = Idle /\ summary = Idle
    /\ category_slug = Idle /\ items = Idle
    /\ category_map = Idle /\ all_cards = Idle
    /\ FEEDS = Idle /\ META_MAP = Idle /\ docs = Idle

\* the call is_safe_image(url)
IsSafeImage ==
    /\ pc = "is_safe_image"
    /\ safe' = is_safe_image(url)
    /\ pc' = "done"
    /\ UNCHANGED <<url, entry, image, text, sentences, primary, summary,
                   category_slug, items, category_map, all_cards,
                   FEEDS, META_MAP, docs>>

NextSafe == IsSafeImage

SpecSafe == InitSafe /\ [][NextSafe]_vars

\* the host is one of the allow-list domains or a subdomain of one
HostAllowed(u) ==
    /\ ~Falsy(u)
    /\ \E k \in 1..Len(SAFE_IMAGE_DOMAINS) :
           \/ lower(u.netloc) = SAFE_IMAGE_DOMAINS[k]
           \/ endswith(lower(u.netloc), <<".">> \o SAFE_IMAGE_DOMAINS[k])

\* C5: is_safe_image(url) is true if and only if the URL's host, lower-cased,
\* equals an allow-list domain or ends with '.' + an allow-list domain; an
\* empty or absent URL is unsafe.
C5_SafeIffAllowed == pc = "done" => (safe <=> HostAllowed(url))

---------------------------------------------------------------------------
(* first_image on its own: every carrier of the entry is drawn from a few  *)
(* shapes; the URL's path names the carrier it sits in.                    *)

FeedHost == <<"f",".","i","o">>

Jpg(tag) == Url(FeedHost, <<"/", tag, ".","j","p","g">>, <<>>)

\* upper-case extension and a query string
PngQ(tag) == Url(FeedHost, <<"/", tag, ".","P","N","G">>, <<"s","=","8">>)

Pdf(tag) == Url(FeedHost, <<"/", tag, ".","p","d","f">>, <<>>)

TextNode == Text(<<"a",".">>)

\* a srcset descriptor such as 2x
Descriptor == Url(<<>>, <<"2","x">>, <<>>)

MediaShapes(tag) ==
    { <<>>,
      << [url |-> None] >>,
      << [url |-> Pdf(tag)] >>,
      << [url |-> PngQ(tag)] >>,
      << [url |-> Pdf(tag)], [url |-> Jpg(tag)] >> }

Enclosure(href, u, type) == [href |-> href, url |-> u, type |-> type]

AudioType == <<"a","u","d","i","o","/","m","p","3">>

ImageType == <<"i","m","a","g","e","/","p","n","g">>

EnclosureShapes ==
    { <<>>,
      << Enclosure(Pdf("e"), None, AudioType) >>,
      << Enclosure(None, Jpg("e"), <<>>) >>,
      << Enclosure(Pdf("e"), None, ImageType) >>,
      << Enclosure(None, None, ImageType) >>,
      << Enclosure(Pdf("e"), None, <<>>), Enclosure(Jpg("e"), Pdf("e"), <<>>) >> }

Block(value, content) == [value |-> value, content |-> content]

ContentShapes ==
    { <<>>,
      << Block(<<TextNode>>, <<>>) >>,
      << Block(<<>>, <<TextNode, Img(Jpg("c"), None, None, <<>>)>>) >>,
      << Block(<<TextNode>>, <<Img(Jpg("x"), None, None, <<>>)>>),
         Block(<<Img(None, None, None, <<Pdf("c"), Descriptor>>)>>, <<>>) >> }

SummaryShapes ==
    { <<>>,
      <<TextNode>>,
      <<TextNode, Img(Jpg("s"), None, None, <<>>)>>,
      <<Img(EmptyUrl, Pdf("s"), Jpg("x"), <<>>), Img(Jpg("x"), None, None, <<>>)>> }

DescriptionShapes ==
    { <<>>, <<Img(None, None, Jpg("d"), <<>>)>> }

Entries ==
    [ media_content : MediaShapes("m"),
      media_thumbnail : MediaShapes("t"),
      enclosures : EnclosureShapes,
      content : ContentShapes,
      summary : SummaryShapes,
      description : DescriptionShapes ]

InitFirst ==
    /\ pc = "first_image"
    /\ entry \in Entries
    /\ image = None
    /\ url = None /\ safe = FALSE
    /\ text = Idle /\ sentences = 0 /\ primary = Idle /\ summary = Idle
    /\ category_slug = Idle /\ items = Idle
    /\ category_map = Idle /\ all_cards = Idle
    /\ FEEDS = Idle /\ META_MAP = Idle /\ docs = Idle

FirstImage ==
    /\ pc = "first_image"
    /\ image' = first_image(entry)
    /\ pc' = "done"
    /\ UNCHANGED <<url, safe, entry, text, sentences, primary, summary,
                   category_slug, items, category_map, all_cards,
                   FEEDS, META_MAP, docs>>

NextFirst == FirstImage

SpecFirst == InitFirst /\ [][NextFirst]_vars

\* The five steps, stated on the entry: which elements match, and the URL of
\* the first one that does.
MediaMatches(list) == {i \in 1..Len(list) : _looks_like_image(list[i].url)}

EnclosureUrl(e) == IF Falsy(e.href) THEN e.url ELSE e.href

EnclosureMatches(list) ==
    {i \in 1..Len(list) :
        \/ _looks_like_image(EnclosureUrl(list[i]))
        \/ contains(list[i].type, ImageWord)}

ImgsOf(html) == {i \in 1..Len(html) : html[i].tag = "img"}

\* the URL the first <img> of the fragment gives, None if it has no <img> or
\* that <img> has none of the four attributes
HtmlUrl(html) ==
    IF ImgsOf(html) = {} THEN None
    ELSE LET img == html[CHOOSE i \in ImgsOf(html) : \A j \in ImgsOf(html) : i <= j]
         IN  CHOOSE u \in {img.src, img.data_src, img.data_original, None}
                           \cup Range(img.srcset) :
                \/ u = img.src /\ ~Falsy(u)
                \/ Falsy(img.src) /\ u = img.data_src /\ ~Falsy(u)
                \/ Falsy(img.src) /\ Falsy(img.data_src)
                       /\ u = img.data_original /\ ~Falsy(u)
                \/ Falsy(img.src) /\ Falsy(img.data_src) /\ Falsy(img.data_original)
                       /\ img.srcset # <<>> /\ u = img.srcset[1]
                \/ Falsy(img.src) /\ Falsy(img.data_src) /\ Falsy(img.data_original)
                       /\ img.srcset = <<>> /\ u = None

BlockHtml(c) == IF c.value = <<>> THEN c.content ELSE c.value

ContentMatches(list) ==
    {i \in 1..Len(list) : ~Falsy(HtmlUrl(BlockHtml(list[i])))}

DescHtml(e) == IF e.summary = <<>> THEN e.description ELSE e.summary

Least(S) == CHOOSE i \in S : \A j \in S : i <= j

\* the lowest-numbered step that has a match, 6 if none has
LowestStep(e) ==
    IF MediaMatches(e.media_content) # {} THEN 1
    ELSE IF MediaMatches(e.media_thumbnail) # {} THEN 2
    ELSE IF EnclosureMatches(e.enclosures) # {} THEN 3
    ELSE IF ContentMatches(e.content) # {} THEN 4
    ELSE IF ~Falsy(HtmlUrl(DescHtml(e))) THEN 5
    ELSE 6

\* the URL of the first match of step k
StepUrl(e, k) ==
    CASE k = 1 -> e.media_content[Least(MediaMatches(e.media_content))].url
      [] k = 2 -> e.media_thumbnail[Least(MediaMatches(e.media_thumbnail))].url
      [] k = 3 -> EnclosureUrl(e.enclosures[Least(EnclosureMatches(e.enclosures))])
      [] k = 4 -> HtmlUrl(BlockHtml(e.content[Least(ContentMatches(e.content))]))
      [] k = 5 -> HtmlUrl(DescHtml(e))
      [] OTHER -> None

\* C6: first_image returns the URL of the first match of the lowest-numbered
\* step that has a match (media content, media thumbnail, enclosures,
\* content blocks, summary/description), and none when no step has one; so a
\* matching media-content image wins over an image in the summary.
C6_PriorityOrder ==
    pc = "done" => image = StepUrl(entry, LowestStep(entry))

\* an entry with a matching media-content image and an image in its summary
\* has been resolved to the media-content URL
C6_Witness ==
    /\ pc = "done"
    /\ MediaMatches(entry.media_content) # {}
    /\ ~Falsy(HtmlUrl(DescHtml(entry)))
    /\ ~Falsy(image)
    /\ image.path[2] = "m"

\* step k, taken on its own, has an element that matches and carries a
\* non-empty URL
StepYields(e, k) ==
    CASE k = 1 -> MediaMatches(e.media_content) # {}
      [] k = 2 -> MediaMatches(e.media_thumbnail) # {}
      [] k = 3 -> \E i \in EnclosureMatches(e.enclosures) :
                      ~Falsy(EnclosureUrl(e.enclosures[i]))
      [] k = 4 -> ContentMatches(e.content) # {}
      [] k = 5 -> ~Falsy(HtmlUrl(DescHtml(e)))
      [] OTHER -> FALSE

\* C11: first_image returns none only when all five steps fail: if any step
\* would yield an image URL for the entry (an <img> in the summary, say), the
\* result is a non-empty URL, whatever the earlier steps contain, an
\* enclosure whose MIME type contains 'image' but which has no href/url
\* included.
C11_NoneOnlyWhenAllFail ==
    pc = "done" =>
        ((\E k \in 1..5 : StepYields(entry, k)) => ~Falsy(image))

---------------------------------------------------------------------------
(* summarize_text on its own *)

MaxTextLen == 4

MaxSentences == 2

TextChars == {"a", ".", " "}

InitSummarize ==
    /\ pc = "summarize_text"
    /\ text \in SeqsUpTo(TextChars, MaxTextLen)
    /\ sentences \in 0..MaxSentences
    /\ primary = Idle /\ summary = Idle
    /\ url = None /\ safe = FALSE /\ entry = Idle /\ image = None
    /\ category_slug = Idle /\ items = Idle
    /\ category_map = Idle /\ all_cards = Idle
    /\ FEEDS = Idle /\ META_MAP = Idle /\ docs = Idle

\* the call summarize_text(text, sentences)
SummarizeText ==
    /\ pc = "summarize_text"
    /\ \E outcome \in PrimaryOutcomes(strip(text), sentences) :
           /\ primary' = outcome
           /\ summary' = summarize_text(text, sentences, outcome)
    /\ pc' = "done"
    /\ UNCHANGED <<url, safe, entry, image, text, sentences,
                   category_slug, items, category_map, all_cards,
                   FEEDS, META_MAP, docs>>

NextSummarize == SummarizeText

SpecSummarize == InitSummarize /\ [][NextSummarize]_vars

\* C8: summarize_text returns at most `sentences` sentences of the input, in
\* their original order, for every text and every count including 0, whatever
\* the primary strategy does; empty input gives the empty string.
C8_AtMostRequested ==
    pc = "done" =>
        \E sel \in SUBSET (1..Len(split_sentences(strip(text)))) :
            /\ Cardinality(sel) <= sentences
            /\ summary = join(pick(split_sentences(strip(text)), sel, 1))

---------------------------------------------------------------------------
(* assign_unique_images on its own: item lists of up to MaxItems items, of  *)
(* which up to MaxSafe carry a safe image, for every pool and for a slug    *)
(* that has no pool.                                                        *)

MaxItems == 14

MaxSafe == 2

UnknownSlug == <<"n","o","-","p","o","o","l">>

Slugs == Range(POOL_SLUGS) \cup {UnknownSlug}

BlogHost == <<"b","l","o","g",".","e","x","a","m","p","l","e",".","c","o","m">>

SafeOriginal == Url(<<"c","d","n",".","p","i","x","a","b","a","y",".","c","o","m">>, ImgPath, <<>>)

\* item i of a list whose items at the positions safe_at carry a safe image;
\* the others carry no image (odd i) or an image of an unlisted host (even i)
AssignItem(i, safe_at) ==
    Item("t", <<"l", i>>, "s", <<>>,
         IF i \in safe_at THEN SafeOriginal
         ELSE IF i % 2 = 1 THEN None
         ELSE Url(BlogHost, ImgPath, <<>>),
         0, <<>>, "c")

AssignInputs ==
    { [i \in 1..n |-> AssignItem(i, safe_at)] :
        n \in 0..MaxItems,
        safe_at \in {x \in SUBSET (1..MaxItems) : Cardinality(x) <= MaxSafe} }

InitAssign ==
    /\ pc = "assign_unique_images"
    /\ category_slug \in Slugs
    /\ items \in AssignInputs
    /\ url = None /\ safe = FALSE /\ entry = Idle /\ image = None
    /\ text = Idle /\ sentences = 0 /\ primary = Idle /\ summary = Idle
    /\ category_map = Idle /\ all_cards = Idle
    /\ FEEDS = Idle /\ META_MAP = Idle /\ docs = Idle

\* the call assign_unique_images(items, category_slug); the list is changed
\* in place
AssignUniqueImages ==
    /\ pc = "assign_unique_images"
    /\ items' = assign_unique_images(items, category_slug)
    /\ pc' = "done"
    /\ UNCHANGED <<url, safe, entry, image, text, sentences, primary, summary,
                   category_slug, category_map, all_cards,
                   FEEDS, META_MAP, docs>>

NextAssign == AssignUniqueImages

SpecAssign == InitAssign /\ [][NextAssign]_vars

\* the positions of the items whose image is not safe
UnsafeAt(its) == {i \in 1..Len(its) : ~is_safe_image(its[i].image)}

\* the pool of the slug, as CATEGORY_IMAGE_POOLS gives it
PoolOf(slug) ==
    LET key == IF slug \in Range(POOL_SLUGS) THEN slug ELSE <<"d","e","f","a","u","l","t">>
    IN  POOLS[CHOOSE k \in 1..Len(POOL_SLUGS) : POOL_SLUGS[k] = key]

\* C7: for every pool (and the default pool for a slug that has none), two
\* unsafe-image items with no unsafe-image item between them (safe ones may
\* lie between) receive different pool images, across the wrap-around of the
\* cursor too; the cursor advances only on a substitution, so the k-th
\* unsafe-image item receives the pool image at position (k - 1) mod the
\* pool's length.
C7_ConsecutiveDiffer ==
    [][ pc = "assign_unique_images" /\ pc' = "done" =>
          LET unsafe == UnsafeAt(items)
              pool == PoolOf(category_slug)
              out == items'
          IN  /\ \A i, j \in unsafe :
                    (i < j /\ \A k \in unsafe : ~(i < k /\ k < j))
                        => out[i].image # out[j].image
              /\ \A i \in unsafe :
                    LET k == Cardinality({j \in unsafe : j <= i})
                    IN  out[i].image = pool_url(pool[((k - 1) % Len(pool)) + 1])
      ]_vars

\* a list with a safe item between unsafe ones and more unsafe items than the
\* pool has images has been processed: the 13th unsafe item got the first
\* pool image again
C7_Witness ==
    /\ pc = "done"
    /\ Len(items) = 14
    /\ items[3].image = SafeOriginal
    /\ items[14].image = pool_url(PoolOf(category_slug)[1])
    /\ items[13].image = pool_url(PoolOf(category_slug)[12])

---------------------------------------------------------------------------
(* The two image resolvers side by side: either assign_unique_images is    *)
(* called on an item list, or copyright_safe_image on one URL.             *)

InitImages ==
    \/ InitAssign
    \/ /\ pc = "copyright_safe_image"
       /\ url \in SafeInputs
       /\ category_slug \in Slugs
       /\ image = None
       /\ safe = FALSE /\ entry = Idle /\ items = Idle
       /\ text = Idle /\ sentences = 0 /\ primary = Idle /\ summary = Idle
       /\ category_map = Idle /\ all_cards = Idle
       /\ FEEDS = Idle /\ META_MAP = Idle /\ docs = Idle

\* the call copyright_safe_image(url, category_slug, article_key), for every
\* index the hash of the key can give
CopyrightSafeImage ==
    /\ pc = "copyright_safe_image"
    /\ \E idx \in 0..(Len(pool_for(category_slug)) - 1) :
           image' = copyright_safe_image(url, category_slug, idx)
    /\ pc' = "done"
    /\ UNCHANGED <<url, safe, entry, text, sentences, primary, summary,
                   category_slug, items, category_map, all_cards,
                   FEEDS, META_MAP, docs>>

NextImages == AssignUniqueImages \/ CopyrightSafeImage

SpecImages == InitImages /\ [][NextImages]_vars

\* C12: assign_unique_images changes nothing but the images of unsafe items:
\* the list keeps its length, every item whose image passes is_safe_image is
\* left exactly as it was, and every other item differs from what it was in
\* its image at most, position by position (so the order is kept);
\* copyright_safe_image returns a URL that passes is_safe_image unchanged.
C12_OnlyUnsafeImagesChange ==
    [][ /\ (pc = "assign_unique_images" /\ pc' = "done") =>
              LET before == items
                  after == items'
              IN  /\ Len(after) = Len(before)
                  /\ \A i \in 1..Len(before) :
                        /\ is_safe_image(before[i].image) => after[i] = before[i]
                        /\ after[i] = [before[i] EXCEPT !.image = after[i].image]
        /\ (pc = "copyright_safe_image" /\ pc' = "done" /\ is_safe_image(url))
              => image' = url
      ]_vars

\* a list of at least three items has been processed in which a safe item
\* kept its image while the item before it and the item after it were given
\* pool images
C12_Witness ==
    /\ pc = "done"
    /\ items # Idle
    /\ \E i \in 2..(Len(items) - 1) :
           /\ items[i].image = SafeOriginal
           /\ items[i - 1].image.netloc = UNSPLASH
           /\ items[i + 1].image.netloc = UNSPLASH

---------------------------------------------------------------------------
(* One category built by main: feeds.json holds one category.  Its sources  *)
(* are either up to MaxSources sources, each a failed fetch or a feed of 0,  *)
(* 1, 12 or 13 entries, or one feed of up to MaxTimed entries with every     *)
(* combination of published and updated times.                               *)

MaxSources == 2

MaxTimed == 2

GAMING == <<"G","a","m","i","n","g">>

HomeMeta == [title |-> HOME, description |-> HOME, h1 |-> HOME, h2 |-> <<>>]

ThreeSentences == <<"a","."," ","b","?"," "," ","c",".">>

\* an entry of a feed; feedparser gives every entry a link here
Entry(link, published, updated, summ, media) ==
    [link |-> link, published_parsed |-> published, updated_parsed |-> updated,
     summary |-> summ, description |-> <<>>, media_content |-> media,
     media_thumbnail |-> <<>>, enclosures |-> <<>>, content |-> <<>>]

\* entry i of source k in the sources that vary in number of entries: every
\* third entry has a three-sentence summary, the even ones a title, and the
\* images are absent, of the feed's own host, or of a safe host
CountedEntry(k, i) ==
    LET e == Entry(<<"l", k, i>>, StructTime((i % 4) + 1), None,
                   IF i % 3 = 1 THEN <<Text(ThreeSentences)>> ELSE <<>>,
                   IF i % 3 = 0 THEN <<>>
                   ELSE IF i % 3 = 1 THEN << [url |-> Jpg("m")] >>
                   ELSE << [url |-> SafeOriginal] >>)
    IN  IF i % 2 = 0 THEN e @@ ("title" :> "T") ELSE e

FailedFetch == [ok |-> FALSE, feed |-> <<>>, entries |-> <<>>]

Fetched(feed, entries) == [ok |-> TRUE, feed |-> feed, entries |-> entries]

EntryCounts == {0, 1, ENTRY_CAP, ENTRY_CAP + 1}

CountedSource(k, n) ==
    IF n < 0 THEN FailedFetch
    ELSE Fetched(IF k % 2 = 1 THEN [title |-> "Feed"] ELSE <<>>,
                 [i \in 1..n |-> CountedEntry(k, i)])

CountedSources ==
    { [k \in 1..m |-> CountedSource(k, shape[k])] :
        m \in 0..MaxSources,
        shape \in [1..MaxSources -> EntryCounts \cup {-1}] }

Times == {None, StructTime(-1), StructTime(1), StructTime(2)}

TimedSources ==
    { << Fetched([title |-> "Feed"],
                 [i \in 1..m |-> Entry(<<"l", 1, i>>, pub[i], upd[i], <<>>, <<>>)]) >> :
        m \in 1..MaxTimed,
        pub \in [1..MaxTimed -> Times],
        upd \in [1..MaxTimed -> {None, StructTime(3)}] }

InitCategory ==
    /\ pc = "sync"
    /\ \E sources \in CountedSources \cup TimedSources :
           FEEDS = << [cat |-> GAMING, urls |-> sources] >>
    /\ META_MAP \in { HOME :> HomeMeta,
                      (HOME :> HomeMeta) @@ (GAMING :> [title |-> GAMING]) }
    /\ category_map = <<>> /\ all_cards = <<>> /\ docs = <<>>
    /\ primary = Idle
    /\ url = None /\ safe = FALSE /\ entry = Idle /\ image = None
    /\ text = Idle /\ sentences = 0 /\ summary = Idle
    /\ category_slug = Idle /\ items = Idle

SpecCategory == InitCategory /\ [][NextMain]_vars

\* the entries of the fetched sources that lie within the first 12 of their
\* feed, as (source, position) pairs
Contributing(sources) ==
    {ki \in (1..Len(sources)) \X (1..(ENTRY_CAP + 1)) :
        /\ sources[ki[1]].ok
        /\ ki[2] <= Len(sources[ki[1]].entries)
        /\ ki[2] <= 12}

EntryOf(item, sources) ==
    LET ki == CHOOSE x \in Contributing(sources) :
                  sources[x[1]].entries[x[2]].link = item.link
    IN  sources[ki[1]].entries[ki[2]]

\* published-time if present, else updated-time, else 0
StatedTs(e) ==
    IF e.published_parsed # None THEN e.published_parsed.tm_days
    ELSE IF e.updated_parsed # None THEN e.updated_parsed.tm_days
    ELSE 0

HasTime(e) == e.published_parsed # None \/ e.updated_parsed # None

\* C2: the items build_category returns are ordered by timestamp descending,
\* every item of unknown timestamp (ts = 0) comes after every item of known
\* timestamp, the timestamp is published-time if present, else updated-time,
\* else 0, and the date of an item of timestamp 0 is the empty string.
C2_SortedUnknownLast ==
    Len(category_map) = 1 =>
        LET its == category_map[1].items
            sources == FEEDS[1].urls
        IN  /\ \A i, j \in 1..Len(its) : i < j => its[i].ts >= its[j].ts
            /\ \A i, j \in 1..Len(its) :
                   (~HasTime(EntryOf(its[i], sources)) /\ HasTime(EntryOf(its[j], sources)))
                       => j < i
            /\ \A i \in 1..Len(its) :
                   /\ its[i].ts = StatedTs(EntryOf(its[i], sources))
                   /\ (its[i].ts = 0 => its[i].date = <<>>)

---------------------------------------------------------------------------
(* build_home on the category map main has built.  The map holds the        *)
(* categories of CATEGORY_ORDER but Gaming, in the reverse of that order,    *)
(* after up to MaxExtra categories that are not in CATEGORY_ORDER.  Every    *)
(* list is sorted by ts descending, as build_category leaves it; the lists   *)
(* have 2 to 5 items with links of their own, but for one or two items       *)
(* anywhere in the map, which carry a shared link or the empty link.         *)

MaxExtra == 2

DigitChars == <<"1","2","3","4","5","6","7","8","9">>

\* category c: 1..9 are those of CATEGORY_ORDER, 10.. the others
CatName(c) ==
    IF c <= Len(CATEGORY_ORDER) THEN CATEGORY_ORDER[c]
    ELSE <<"X", DigitChars[c - Len(CATEGORY_ORDER)]>>

ListLen(c) == IF c = 1 THEN 5 ELSE IF c = 4 THEN 2 ELSE 4

\* the categories of the map, in the map's order
MapCats(n) ==
    [k \in 1..n |-> Len(CATEGORY_ORDER) + n + 1 - k] \o <<9, 7, 6, 5, 4, 3, 2, 1>>

Positions(n) ==
    {ci \in Range(MapCats(n)) \X (1..5) : ci[2] <= ListLen(ci[1])}

SharedLinks == { <<"s","h","a","r","e","d">>, <<>> }

HomeItem(c, i, link) ==
    Item(<<c, i>>, link, "Feed", <<>>, SafeOriginal,
         3 * (5 - i) + (c % 3), fmt_date(3 * (5 - i) + (c % 3)), CatName(c))

HomeMap(n, marked, shared) ==
    [k \in 1..Len(MapCats(n)) |->
        LET c == MapCats(n)[k]
        IN  [cat |-> CatName(c),
             items |-> [i \in 1..ListLen(c) |->
                          HomeItem(c, i, IF <<c, i>> \in marked THEN shared
                                         ELSE <<"l", c, i>>)]]]

InitHome ==
    /\ pc = "loop"
    /\ \E n \in 0..MaxExtra :
         \E p \in Positions(n), q \in Positions(n), shared \in SharedLinks :
             category_map = HomeMap(n, {p, q}, shared)
    /\ FEEDS = [k \in 1..Len(category_map) |->
                   [cat |-> category_map[k].cat, urls |-> <<>>]]
    /\ META_MAP = (HOME :> HomeMeta)
    /\ all_cards = <<>> /\ docs = sync_static_assets(<<>>)
    /\ primary = Idle
    /\ url = None /\ safe = FALSE /\ entry = Idle /\ image = None
    /\ text = Idle /\ sentences = 0 /\ summary = Idle
    /\ category_slug = Idle /\ items = Idle

NextHome == BuildHome

SpecHome == InitHome /\ [][NextHome]_vars

\* the cards of the rendered homepage
HomeCards == docs[INDEX_HTML].cards

\* the first 3 items of a category's list
TopOf(cmap, cat) ==
    LET k == {j \in 1..Len(cmap) : cmap[j].cat = cat}
    IN  IF k = {} THEN <<>>
        ELSE LET its == cmap[CHOOSE j \in k : TRUE].items
             IN  SubSeq(its, 1, IF Len(its) < 3 THEN Len(its) ELSE 3)

RECURSIVE Flatten(_)
Flatten(lists) == IF lists = <<>> THEN <<>> ELSE Head(lists) \o Flatten(Tail(lists))

\* the items the sweep meets, in its order: the first 3 of the categories of
\* CATEGORY_ORDER in its listed order, then the first 3 of the other
\* categories in map order
SweepOrder(cmap) ==
    Flatten([k \in 1..Len(CATEGORY_ORDER) |-> TopOf(cmap, CATEGORY_ORDER[k])])
    \o Flatten([k \in 1..Len(cmap) |->
                  IF cmap[k].cat \in Range(CATEGORY_ORDER) THEN <<>>
                  ELSE TopOf(cmap, cmap[k].cat)])

Occurrences(list, link) == {i \in 1..Len(list) : list[i].link = link}

\* the links that two or more items of the list carry
RepeatedLinks(sweep) ==
    {l \in {sweep[i].link : i \in 1..Len(sweep)} :
        Cardinality(Occurrences(sweep, l)) >= 2}

\* the first item of the list that carries the link
FirstMet(sweep, link) ==
    sweep[CHOOSE i \in Occurrences(sweep, link) :
              \A j \in Occurrences(sweep, link) : i <= j]

\* C1 as stated: a link that two items within the first 3 of their
\* categories' lists carry appears exactly once among the homepage cards,
\* on the item met first in the sweep order.
C1_ExactlyOnceOnHomepage ==
    pc = "done" =>
        LET sweep == SweepOrder(category_map)
            cards == HomeCards
        IN  \A l \in RepeatedLinks(sweep) :
                /\ Cardinality(Occurrences(cards, l)) = 1
                /\ \A i \in Occurrences(cards, l) : cards[i] = FirstMet(sweep, l)

\* C1 as amended: such a link appears exactly once in the combined list
\* before the truncation to 27 and at most once among the homepage cards,
\* each time on the item met first in the sweep order.
C1_OnceBeforeTruncation ==
    pc = "done" =>
        LET sweep == SweepOrder(category_map)
            cards == HomeCards
        IN  \A l \in RepeatedLinks(sweep) :
                /\ Cardinality(Occurrences(all_cards, l)) = 1
                /\ Cardinality(Occurrences(cards, l)) <= 1
                /\ \A i \in Occurrences(all_cards, l) :
                       all_cards[i] = FirstMet(sweep, l)
                /\ \A i \in Occurrences(cards, l) : cards[i] = FirstMet(sweep, l)

\* a link shared by items of two categories, both within the first 3, is on
\* the homepage, on the item of the category that is swept first
C1_Witness ==
    /\ pc = "done"
    /\ LET sweep == SweepOrder(category_map)
       IN  \E l \in RepeatedLinks(sweep) :
               /\ \E i, j \in Occurrences(sweep, l) :
                      sweep[i].category # sweep[j].category
               /\ \E i \in 1..Len(HomeCards) : HomeCards[i] = FirstMet(sweep, l)

\* C4: the homepage has at most 27 cards, at most 3 of any one category and
\* only items among the first 3 of their category's list, ordered by
\* timestamp descending; when the sorted combined list is longer than 27 they
\* are its first 27 items.
C4_CappedSortedCards ==
    pc = "done" =>
        LET cards == HomeCards
        IN  /\ Len(cards) <= 27
            /\ \A i \in 1..Len(cards) :
                   /\ Cardinality({j \in 1..Len(cards) :
                          cards[j].category = cards[i].category}) <= 3
                   /\ cards[i] \in Range(TopOf(category_map, cards[i].category))
            /\ \A i, j \in 1..Len(cards) : i < j => cards[i].ts >= cards[j].ts
            /\ \A i, j \in 1..Len(all_cards) :
                   i < j => all_cards[i].ts >= all_cards[j].ts
            /\ Len(all_cards) > 27 => cards = SubSeq(all_cards, 1, 27)

\* a combined list of more than 27 items has been cut to 27 cards
C4_Witness ==
    /\ pc = "done"
    /\ Len(all_cards) > 27
    /\ Len(HomeCards) = 27

\* C9: an item whose link is the empty string and that lies within the first
\* 3 items of its category is never skipped: every such item is in the
\* combined list before truncation.
C9_EmptyLinkNeverSkipped ==
    pc = "done" =>
        LET sweep == SweepOrder(category_map)
        IN  \A i \in 1..Len(sweep) :
                sweep[i].link = <<>> => sweep[i] \in Range(all_cards)

---------------------------------------------------------------------------
(* main on small configurations: feeds.json holds up to MaxCategories        *)
(* categories with distinct names, each with one feed of one entry;          *)
(* meta.json holds Home and perhaps metadata for Gaming.                     *)

MaxCategories == 2

AI_NEWS == <<"A","I"," ","N","e","w","s">>

MainNames ==
    { GAMING, AI_NEWS, <<"A","I","-","N","e","w","s">>, <<"I","n","d","e","x">>, <<"a","b","o","u","t">> }

GamingMetas ==
    { [title |-> GAMING],
      [title |-> GAMING, slug |-> <<"g","a","m","i","n","g">>],
      [title |-> GAMING, slug |-> <<"i","n","d","e","x">>],
      [title |-> GAMING, slug |-> <<"a","i","-","n","e","w","s">>] }

OneFeed == << Fetched([title |-> "Feed"], << CountedEntry(1, 1) >>) >>

InitMain ==
    /\ pc = "sync"
    /\ \E n \in 0..MaxCategories :
         \E names \in [1..n -> MainNames] :
             /\ \A i, j \in 1..n : i # j => names[i] # names[j]
             /\ FEEDS = [k \in 1..n |-> [cat |-> names[k], urls |-> OneFeed]]
    /\ META_MAP \in {HOME :> HomeMeta}
                      \cup {(HOME :> HomeMeta) @@ (GAMING :> m) : m \in GamingMetas}
    /\ category_map = <<>> /\ all_cards = <<>> /\ docs = <<>>
    /\ primary = Idle
    /\ url = None /\ safe = FALSE /\ entry = Idle /\ image = None
    /\ text = Idle /\ sentences = 0 /\ summary = Idle
    /\ category_slug = Idle /\ items = Idle

SpecMain == InitMain /\ [][NextMain]_vars

\* where the page of the k-th category of feeds.json is written
PagePath(k) == meta_for(FEEDS[k].cat, META_MAP).slug \o DOT_HTML

\* C10: when main completes, every category's page was written to a path
\* distinct from every other category's and from index.html, and the output
\* directory holds it: no later build_category call and not build_home has
\* overwritten it.
C10_OnePagePerCategory ==
    pc = "done" =>
        \A k \in 1..Len(FEEDS) :
            /\ PagePath(k) # INDEX_HTML
            /\ \A j \in 1..Len(FEEDS) : j # k => PagePath(j) # PagePath(k)
            /\ PagePath(k) \in DOMAIN docs
            /\ docs[PagePath(k)].template = "category"
            /\ docs[PagePath(k)].cards = category_map[k].items

====
